---- MODULE Spec2Model ----
(***************************************************************************)
(* State-machine model of react-cosmos-loader's connect-loader.js: the     *)
(* module-level state (unbindPrev, selected, hasFixtureUpdate), the        *)
(* window's message listeners, the pending asynchronous mounts and the     *)
(* messages posted to the parent frame.                                    *)
(***************************************************************************)
EXTENDS Naturals, Sequences, FiniteSets, TLC

(* ------------------------------ bounds -------------------------------- *)

\* Number of connectLoader calls explored.
MaxCalls == 2
\* Number of mounts (createContext + mount) explored.
MaxMounts == 3

(* ------------------------------ fixtures ------------------------------ *)

\* A fixture is a flat object: a function from its keys to values.  The
\* value "F" stands for a function (not serializable); every other value is
\* plain data.
UnserializableValues == {"F"}

\* The fixture registries connectLoader is called with.  Reg1 is the
\* initial registry; Reg2 is a hot-reloaded one: A/f1 has a new body, and
\* component B is added (so B is absent from Reg1).  No registry defines a
\* fixture f2.
Reg1 == [A |-> [f1 |-> [a |-> "1", b |-> "2", fn |-> "F"]]]

Reg2 == [A |-> [f1 |-> [a |-> "1", b |-> "4", fn |-> "F"]],
         B |-> [f1 |-> [c |-> "5"]]]

Registries == <<Reg1, Reg2>>

RegistryIds == DOMAIN Registries

\* Component and fixture names the Host may ask for.
ComponentNames == {"A", "B"}

FixtureNames == {"f1", "f2"}

\* Bodies of fixtureEdit messages (always plain data: they crossed
\* postMessage), and fixture parts reported by onUpdate callbacks.
EditBodies == {[b |-> "9"], [a |-> "7", fn |-> "8"]}

UpdateParts == {[state |-> "1", fn |-> "F"]}

\* Inbound messages (LoaderMessage.data).
Messages ==
    [type : {"fixtureSelect"}, component : ComponentNames, fixture : FixtureNames]
    \cup [type : {"fixtureEdit"}, fixtureBody : EditBodies]
    \cup [type : {"other"}]

\* `selected` when it is undefined.
NoSelection == [component |-> "undefined", fixture |-> "undefined"]

\* The value of a property lookup that finds nothing.
Undefined == [undefined |-> "undefined"]

(* --------------------------- pure functions --------------------------- *)

Restrict(obj, keys) == [k \in keys |-> obj[k]]

\* splitUnserializableParts of react-cosmos-shared: partitions the keys of
\* an object by whether their value is serializable.
splitUnserializableParts(obj) ==
    LET ser == {k \in DOMAIN obj : obj[k] \notin UnserializableValues}
    IN  [serializable   |-> Restrict(obj, ser),
         unserializable |-> Restrict(obj, DOMAIN obj \ ser)]

\* A bug the spread could have: the operands are swapped.
SpreadKeepsFirst(a, b) == a @@ b

\* Object spread {...a, ...b}: b's keys override a's.
Spread(a, b) == b @@ a

\* lodash merge({}, a, b) on flat objects: keys of b are assigned over a's.
merge(a, b) == b @@ a

applyFixturePart(currentFixture, fixturePart) ==
    LET parts == splitUnserializableParts(currentFixture)
    IN  merge(parts.unserializable, Spread(parts.serializable, fixturePart))

extractFixtureNames(fixtures) ==
    [c \in DOMAIN fixtures |-> DOMAIN fixtures[c]]

(* ------------------------------- state -------------------------------- *)

VARIABLES
    calls,            \* number of connectLoader calls made; call b creates closure b
    fixturesOf,       \* fixturesOf[b]: id of the registry of closure b, for each
                      \* closure whose onMessage is still registered
    unbindPrev,       \* module-level unbindPrev: 0 (undefined) or the closure whose unbind it is
    listeners,        \* closures whose onMessage is registered on window
    selected,         \* module-level selected
    hasFixtureUpdate, \* module-level hasFixtureUpdate
    pending,          \* loadFixture calls suspended at `await mount()`
    mountCount,       \* number of mounts started so far
    mountsDone,       \* number of mounts completed so far
    posted,           \* messages the last step posted to the parent, in order
    destroys,         \* closures whose connectLoader has returned its destroy
    lastDestroyed,    \* the closure whose binding a destroy call tore down most
                      \* recently (0: none yet)
    last,             \* the operation that ran last
    lastMessage,      \* the inbound message handled last
    applied           \* a call of applyFixturePart on its own: arguments and result

vars == <<calls, fixturesOf, unbindPrev, listeners, selected, hasFixtureUpdate,
          pending, mountCount, mountsDone, posted, destroys,
          lastDestroyed, last, lastMessage, applied>>

fixtures(b) == Registries[fixturesOf[b]]

\* fixtures[component][fixture], for a component the registry has.
getFixture(reg, component, fixture) ==
    IF fixture \in DOMAIN reg[component] THEN reg[component][fixture] ELSE Undefined

Op(op, arg, task) == [op |-> op, arg |-> arg, task |-> task]

\* No call of applyFixturePart on its own.
NoApplication ==
    [fixture |-> Undefined, part |-> Undefined, result |-> Undefined, done |-> FALSE]

Init ==
    /\ applied = NoApplication
    /\ calls = 0
    /\ fixturesOf = << >>
    /\ unbindPrev = 0
    /\ listeners = {}
    /\ selected = NoSelection
    /\ hasFixtureUpdate = FALSE
    /\ pending = {}
    /\ mountCount = 0
    /\ mountsDone = 0
    /\ posted = << >>
    /\ destroys = {}
    /\ lastDestroyed = 0
    /\ last = Op("init", "", 0)
    /\ lastMessage = [type |-> "none", handled |-> "none", task |-> 0]

(* ------------------------------ helpers ------------------------------- *)

postMessageToParent(data) == posted' = <<data>>

\* A bug the call of line 148 could have: the remount of a rebind is made
\* with notifyParent = false.
loadFixtureSilentRebind(b, kind, fixture, notifyParent) ==
    /\ mountCount < MaxMounts
    /\ mountCount' = mountCount + 1
    /\ pending' = pending \cup {[id |-> mountCount + 1, kind |-> kind, binding |-> b,
                                 fixture |-> fixture,
                                 notifyParent |-> notifyParent /\ kind # "connectLoader"]}

\* The synchronous part of loadFixture: createContext and the call of
\* mount(); the caller is suspended until MountDone resumes it.  b is the
\* connectLoader call to resume, 0 when the caller is an onMessage handler
\* (which uses nothing of its closure after the await but the optional
\* dismissRuntimeErrors hook).
loadFixture(b, kind, fixture, notifyParent) ==
    /\ mountCount < MaxMounts
    /\ mountCount' = mountCount + 1
    /\ pending' = pending \cup {[id |-> mountCount + 1, kind |-> kind, binding |-> b,
                                 fixture |-> fixture, notifyParent |-> notifyParent]}

\* A bug FixtureExists could have: only the component is looked up.
FixtureExistsComponentOnly(b, component, fixture) ==
    component \in DOMAIN fixtures(b)

\* The guard of line 78.
FixtureExists(b, component, fixture) ==
    /\ component \in DOMAIN fixtures(b)
    /\ fixture \in DOMAIN fixtures(b)[component]

\* A bug unbind could have: the listener is not removed.
unbindKeepsListener(ls, b) == ls

\* window.removeEventListener of closure b's onMessage.
unbind(ls, b) == ls \ {b}

\* A bug isFirstCall could have: first call of the process, not of a binding.
isFirstCallEver == calls = 0

\* Line 121.
isFirstCall == unbindPrev = 0

\* A bug the selection could have: the flag is not reset.
selectFixtureKeepsFlag(component, fixture) ==
    /\ selected' = [component |-> component, fixture |-> fixture]
    /\ UNCHANGED hasFixtureUpdate

\* Lines 79-80.
selectFixture(component, fixture) ==
    /\ selected' = [component |-> component, fixture |-> fixture]
    /\ hasFixtureUpdate' = FALSE

\* A bug the guard of line 92 could have: it always passes.
hasSelectionAlways == TRUE

\* The guard of line 92.
hasSelection == selected # NoSelection

\* A bug loadFixture could have: the fixture is posted without being split.
resumeLoadFixtureUnsplit(t) ==
    IF t.notifyParent
    THEN posted' = <<[type |-> "fixtureLoad", fixtureBody |-> t.fixture]>>
    ELSE posted' = << >>

\* A bug loadFixture could have: no notification once the listener is gone.
resumeLoadFixtureIfBound(t) ==
    IF t.notifyParent /\ listeners # {}
    THEN posted' = <<[type |-> "fixtureLoad",
                     fixtureBody |-> splitUnserializableParts(t.fixture).serializable]>>
    ELSE posted' = << >>

\* loadFixture after `await mount()`: lines 55-62.
resumeLoadFixture(t) ==
    IF t.notifyParent
    THEN postMessageToParent(
             [type |-> "fixtureLoad",
              fixtureBody |-> splitUnserializableParts(t.fixture).serializable])
    ELSE posted' = << >>

\* A bug the edit could have: the body is applied to the fixture of the
\* latest edit still being mounted instead of the registry's definition.
editedFixtureAccumulating(b, fixtureBody) ==
    LET edits == {t \in pending : t.kind = "fixtureEdit"}
        latest == CHOOSE t \in edits : \A u \in edits : u.id <= t.id
    IN  applyFixturePart(
            IF edits # {} THEN latest.fixture
            ELSE getFixture(fixtures(b), selected.component, selected.fixture),
            fixtureBody)

\* Lines 102-105: the fixture a fixtureEdit mounts.
editedFixture(b, fixtureBody) ==
    applyFixturePart(getFixture(fixtures(b), selected.component, selected.fixture),
                     fixtureBody)

\* A bug the implicit unbind could have: it resets the state as destroy does.
unbindPrevStateResets ==
    IF isFirstCall
    THEN UNCHANGED <<selected, hasFixtureUpdate>>
    ELSE selected' = NoSelection /\ hasFixtureUpdate' = FALSE

\* Lines 116-126: what the implicit unbind of the previous binding does to
\* selected and hasFixtureUpdate (nothing).
unbindPrevState == UNCHANGED <<selected, hasFixtureUpdate>>

\* window.addEventListener of closure b's onMessage.
bind(ls, b) == ls \cup {b}

(* ------------------------------ actions ------------------------------- *)

\* connectLoader(args) with args.fixtures = Registries[r], up to its first
\* await (or to its return when it does not await).
connectLoader(r) ==
    LET b == calls + 1
        resync == ~isFirstCall /\ selected # NoSelection /\ ~hasFixtureUpdate
        reg == Registries[r]
    IN  /\ calls < MaxCalls
        /\ calls' = b
        /\ listeners' = bind(IF isFirstCall THEN listeners
                             ELSE unbind(listeners, unbindPrev), b)
        /\ fixturesOf' = [c \in listeners' |-> IF c = b THEN r ELSE fixturesOf[c]]
        /\ unbindPrev' = b
        /\ postMessageToParent(
               [type |-> IF isFirstCall THEN "loaderReady" ELSE "fixtureListUpdate",
                fixtures |-> extractFixtureNames(reg)])
        /\ IF resync
           THEN IF selected.component \in DOMAIN reg
                THEN \* line 148: the call is suspended in loadFixture
                     /\ loadFixture(b, "connectLoader",
                                    getFixture(reg, selected.component, selected.fixture),
                                    TRUE)
                     /\ last' = Op("connectLoader", "resync", mountCount + 1)
                     /\ UNCHANGED destroys
                ELSE \* fixtures[component] is undefined: line 148 throws a
                     \* TypeError, connectLoader rejects and returns no destroy
                     /\ last' = Op("connectLoader", "TypeError", 0)
                     /\ UNCHANGED <<pending, mountCount, destroys>>
           ELSE /\ destroys' = destroys \cup {b}
                /\ last' = Op("connectLoader", IF isFirstCall THEN "first" ELSE "rebind", 0)
                /\ UNCHANGED <<pending, mountCount>>
        /\ unbindPrevState
        /\ UNCHANGED <<mountsDone, lastDestroyed, lastMessage, applied>>

\* onMessage of closure b, up to its first await (or to its end).
onMessage(b, data) ==
    /\ b \in listeners
    /\ IF data.type = "fixtureSelect"
       THEN IF FixtureExists(b, data.component, data.fixture)
            THEN /\ selectFixture(data.component, data.fixture)
                 /\ loadFixture(0, "fixtureSelect",
                                getFixture(fixtures(b), data.component, data.fixture), TRUE)
                 /\ last' = Op("onMessage", "fixtureSelect", mountCount + 1)
                 /\ lastMessage' = [type |-> "fixtureSelect", handled |-> "selected",
                                    task |-> mountCount + 1]
            ELSE \* console.error: missing fixture
                 /\ last' = Op("onMessage", "missing", 0)
                 /\ lastMessage' = [type |-> "fixtureSelect", handled |-> "missing",
                                    task |-> 0]
                 /\ UNCHANGED <<selected, hasFixtureUpdate, pending, mountCount>>
       ELSE IF data.type = "fixtureEdit"
            THEN IF ~hasSelection
                 THEN \* console.error: no selected fixture to edit
                      /\ last' = Op("onMessage", "noSelection", 0)
                      /\ lastMessage' = [type |-> "fixtureEdit", handled |-> "noSelection",
                                         task |-> 0]
                      /\ UNCHANGED <<selected, hasFixtureUpdate, pending, mountCount>>
                 ELSE /\ hasFixtureUpdate' = TRUE
                      /\ UNCHANGED selected
                      /\ IF selected.component \in DOMAIN fixtures(b)
                         THEN /\ loadFixture(0, "fixtureEdit",
                                         editedFixture(b, data.fixtureBody), FALSE)
                              /\ last' = Op("onMessage", "fixtureEdit", mountCount + 1)
                              /\ lastMessage' = [type |-> "fixtureEdit", handled |-> "edited",
                                                 task |-> mountCount + 1]
                         ELSE \* fixtures[component] is undefined: line 103 throws
                              /\ last' = Op("onMessage", "TypeError", 0)
                              /\ lastMessage' = [type |-> "fixtureEdit",
                                                 handled |-> "TypeError", task |-> 0]
                              /\ UNCHANGED <<pending, mountCount>>
            ELSE \* neither branch of onMessage applies
                 /\ last' = Op("onMessage", "ignored", 0)
                 /\ lastMessage' = [type |-> data.type, handled |-> "ignored", task |-> 0]
                 /\ UNCHANGED <<selected, hasFixtureUpdate, pending, mountCount>>
    /\ posted' = << >>
    /\ UNCHANGED <<calls, fixturesOf, unbindPrev, listeners, mountsDone, destroys,
                   lastDestroyed, applied>>

\* The mount awaited by task t resolves: loadFixture resumes after line 53,
\* and then its caller (onMessage lines 85-87, or connectLoader's return).
MountDone(t) ==
    /\ t \in pending
    /\ pending' = pending \ {t}
    /\ mountsDone' = mountsDone + 1
    /\ resumeLoadFixture(t)
    /\ destroys' = IF t.kind = "connectLoader" THEN destroys \cup {t.binding} ELSE destroys
    /\ last' = Op("mountDone", t.kind, t.id)
    /\ UNCHANGED <<calls, fixturesOf, unbindPrev, listeners, selected, hasFixtureUpdate,
                   mountCount, lastDestroyed, lastMessage, applied>>

\* A bug onContextUpdate could have: the flag is not set.
onContextUpdateKeepsFlag(fixturePart) ==
    /\ mountsDone > 0
    /\ postMessageToParent(
           [type |-> "fixtureUpdate",
            fixtureBody |-> splitUnserializableParts(fixturePart).serializable])
    /\ last' = Op("onContextUpdate", "", 0)
    /\ UNCHANGED <<calls, fixturesOf, unbindPrev, listeners, selected, hasFixtureUpdate,
                   pending, mountCount, mountsDone, destroys, lastDestroyed, lastMessage,
                   applied>>

\* onUpdate callback of a mounted context (contexts are never unmounted by
\* this file, so any context whose mount completed may report).
onContextUpdate(fixturePart) ==
    /\ mountsDone > 0
    /\ hasFixtureUpdate' = TRUE
    /\ postMessageToParent(
           [type |-> "fixtureUpdate",
            fixtureBody |-> splitUnserializableParts(fixturePart).serializable])
    /\ last' = Op("onContextUpdate", "", 0)
    /\ UNCHANGED <<calls, fixturesOf, unbindPrev, listeners, selected, pending,
                   mountCount, mountsDone, destroys, lastDestroyed, lastMessage, applied>>

\* A bug destroy could have: the state is reset outside the guard.
destroyUnguarded(b) ==
    /\ b \in destroys
    /\ listeners' = unbind(listeners, unbindPrev)
    /\ fixturesOf' = [c \in listeners' |-> fixturesOf[c]]
    /\ unbindPrev' = 0
    /\ selected' = NoSelection
    /\ hasFixtureUpdate' = FALSE
    /\ lastDestroyed' = IF unbindPrev # 0 THEN unbindPrev ELSE lastDestroyed
    /\ last' = Op("destroy", IF unbindPrev = 0 THEN "inactive"
                             ELSE IF unbindPrev = b THEN "own" ELSE "other", 0)
    /\ posted' = << >>
    /\ UNCHANGED <<calls, pending, mountCount, mountsDone, destroys, lastMessage, applied>>

\* A bug destroy could have: it acts only on the binding of its own call.
destroyOwnOnly(b) ==
    /\ b \in destroys
    /\ IF unbindPrev = b
       THEN /\ listeners' = unbind(listeners, unbindPrev)
            /\ fixturesOf' = [c \in listeners' |-> fixturesOf[c]]
            /\ unbindPrev' = 0
            /\ selected' = NoSelection
            /\ hasFixtureUpdate' = FALSE
            /\ lastDestroyed' = unbindPrev
            /\ last' = Op("destroy", "own", 0)
       ELSE /\ last' = Op("destroy", "inactive", 0)
            /\ UNCHANGED <<listeners, fixturesOf, unbindPrev, selected,
                           hasFixtureUpdate, lastDestroyed>>
    /\ posted' = << >>
    /\ UNCHANGED <<calls, pending, mountCount, mountsDone, destroys, lastMessage, applied>>

\* The destroy closure returned by call b.
destroy(b) ==
    /\ b \in destroys
    /\ IF unbindPrev # 0
       THEN /\ listeners' = unbind(listeners, unbindPrev)
            /\ fixturesOf' = [c \in listeners' |-> fixturesOf[c]]
            /\ unbindPrev' = 0
            /\ selected' = NoSelection
            /\ hasFixtureUpdate' = FALSE
            /\ lastDestroyed' = unbindPrev
            /\ last' = Op("destroy", IF unbindPrev = b THEN "own" ELSE "other", 0)
       ELSE /\ last' = Op("destroy", "inactive", 0)
            /\ UNCHANGED <<listeners, fixturesOf, unbindPrev, selected,
                           hasFixtureUpdate, lastDestroyed>>
    /\ posted' = << >>
    /\ UNCHANGED <<calls, pending, mountCount, mountsDone, destroys, lastMessage, applied>>

Next ==
    \/ \E r \in RegistryIds : connectLoader(r)
    \/ \E b \in listeners, data \in Messages : onMessage(b, data)
    \/ \E t \in pending : MountDone(t)
    \/ \E part \in UpdateParts : onContextUpdate(part)
    \/ \E b \in destroys : destroy(b)

Spec == Init /\ [][Next]_vars

(* ---------------------- applyFixturePart on its own -------------------- *)

\* Keys and values of the fixtures and edit bodies applyFixturePart is
\* applied to: every object over the keys, fixtures with plain and
\* function values, edit bodies with plain values.
ApplyKeys == {"a", "b", "fn"}

ApplyFixtures == UNION {[ks -> {"1", "2", "F"}] : ks \in SUBSET ApplyKeys}

ApplyParts == UNION {[ks -> {"9"}] : ks \in SUBSET ApplyKeys}

InitApply ==
    /\ applied \in [fixture : ApplyFixtures, part : ApplyParts,
                    result : {Undefined}, done : {FALSE}]
    /\ calls = 0
    /\ fixturesOf = << >>
    /\ unbindPrev = 0
    /\ listeners = {}
    /\ selected = NoSelection
    /\ hasFixtureUpdate = FALSE
    /\ pending = {}
    /\ mountCount = 0
    /\ mountsDone = 0
    /\ posted = << >>
    /\ destroys = {}
    /\ lastDestroyed = 0
    /\ last = Op("init", "", 0)
    /\ lastMessage = [type |-> "none", handled |-> "none", task |-> 0]

\* One call applyFixturePart(applied.fixture, applied.part).
ApplyFixturePart ==
    /\ ~applied.done
    /\ applied' = [applied EXCEPT
                      !.result = applyFixturePart(applied.fixture, applied.part),
                      !.done = TRUE]
    /\ UNCHANGED <<calls, fixturesOf, unbindPrev, listeners, selected, hasFixtureUpdate,
                   pending, mountCount, mountsDone, posted, destroys, lastDestroyed,
                   last, lastMessage>>

NextApply == ApplyFixturePart

SpecApply == InitApply /\ [][NextApply]_vars

(* ------------------------------- claims ------------------------------- *)

\* The pair component/fixture is defined by the registry of closure b.
InRegistry(b, component, fixture) ==
    \E c \in DOMAIN fixtures(b) :
        /\ c = component
        /\ \E f \in DOMAIN fixtures(b)[c] : f = fixture

\* A binding is active when a message listener is registered.
BindingActive == listeners # {}

\* The message handlers suspended at their mount.
HandlersInFlight == {t \in pending : t.kind \in {"fixtureSelect", "fixtureEdit"}}

SelectOf(data) == [component |-> data.component, fixture |-> data.fixture]

\* C1: at most one message listener is registered in every reachable state;
\* right after a connectLoader call the only listener is the one that call
\* installed (all earlier ones are unregistered).
C1_SingleListener ==
    /\ Cardinality(listeners) <= 1
    /\ last.op = "connectLoader" => listeners = {calls}

\* C1 witness: a second bind, with no destroy before it, has replaced the
\* first binding's listener.
C1_Witness ==
    /\ calls >= 2
    /\ lastDestroyed = 0
    /\ last.op = "connectLoader"
    /\ listeners = {calls}

\* C2: every connectLoader call posts exactly one announcement: loaderReady
\* when no binding is active at the call, fixtureListUpdate when one is.
C2_Announcement ==
    [][\A r \in RegistryIds :
          connectLoader(r) =>
              /\ Len(posted') = 1
              /\ posted'[1].type = IF BindingActive THEN "fixtureListUpdate"
                                   ELSE "loaderReady"
              /\ posted'[1].fixtures = [c \in DOMAIN Registries[r] |->
                                            DOMAIN Registries[r][c]]]_vars

\* C2 witness: a bind made after a destroy reset the state announced
\* loaderReady again.
C2_Witness ==
    /\ calls >= 2
    /\ lastDestroyed # 0
    /\ last.op = "connectLoader"
    /\ posted[1].type = "loaderReady"

\* C3: a fixtureSelect of a pair the registry defines sets Selection to the
\* pair, starts exactly one mount, of the registry's definition, and posts
\* nothing yet; the completion of that mount posts exactly one fixtureLoad
\* with the fixture's serializable part; fixtureLoad is posted by no step
\* other than a mount's completion.
C3_SelectMountsThenLoads ==
    [][/\ \A b \in listeners, data \in Messages :
            (/\ data.type = "fixtureSelect"
             /\ InRegistry(b, data.component, data.fixture)
             /\ onMessage(b, data))
            => /\ selected' = SelectOf(data)
               /\ mountCount' = mountCount + 1
               /\ \E t \in pending' :
                     /\ t \notin pending
                     /\ pending' = pending \cup {t}
                     /\ t.fixture = fixtures(b)[data.component][data.fixture]
               /\ posted' = << >>
       /\ \A t \in pending :
            (t.kind = "fixtureSelect" /\ MountDone(t))
            => posted' = <<[type |-> "fixtureLoad",
                            fixtureBody |->
                                splitUnserializableParts(t.fixture).serializable]>>
       /\ (posted' # << >> /\ posted'[1].type = "fixtureLoad")
            => last'.op = "mountDone"]_vars

\* C3 witness: the mount started by a fixtureSelect of A/f1 has completed and
\* its fixtureLoad, without the function-valued key, was posted.
C3_Witness ==
    /\ last.op = "mountDone"
    /\ last.arg = "fixtureSelect"
    /\ selected = [component |-> "A", fixture |-> "f1"]
    /\ Len(posted) = 1
    /\ posted[1].type = "fixtureLoad"
    /\ DOMAIN posted[1].fixtureBody = {"a", "b"}

\* C4 (as claimed): at no time are two message handlers in flight.
C4_Serialized == Cardinality(HandlersInFlight) <= 1

\* C5 (as claimed): when the handling of a valid fixtureSelect completes
\* (mount finished, fixtureLoad posted) and no message was processed after
\* it, PendingUpdateFlag is false.
C5_FlagFalseAtCompletion ==
    (/\ last.op = "mountDone"
     /\ last.arg = "fixtureSelect"
     /\ lastMessage.handled = "selected"
     /\ lastMessage.task = last.task)
    => ~hasFixtureUpdate

\* C5 (amended): a valid fixtureSelect leaves PendingUpdateFlag false at the
\* moment it is processed; the flag turns true only by an update callback or
\* a fixtureEdit; the completion of a mount never changes it.
C5_SelectResetsFlag ==
    [][/\ \A b \in listeners, data \in Messages :
            (/\ data.type = "fixtureSelect"
             /\ InRegistry(b, data.component, data.fixture)
             /\ onMessage(b, data))
            => hasFixtureUpdate' = FALSE
       /\ (~hasFixtureUpdate /\ hasFixtureUpdate')
            => \/ last'.op = "onContextUpdate"
               \/ last'.op = "onMessage" /\ lastMessage'.type = "fixtureEdit"
       /\ last'.op = "mountDone" => hasFixtureUpdate' = hasFixtureUpdate]_vars

\* C5 witness: a fixtureSelect processed after earlier mounts has completed
\* with the flag still false.
C5_Witness ==
    /\ last.op = "mountDone"
    /\ last.arg = "fixtureSelect"
    /\ lastMessage.handled = "selected"
    /\ lastMessage.task = last.task
    /\ last.task >= 2
    /\ ~hasFixtureUpdate

\* C6 (as claimed): with a Selection present, a fixtureEdit sets
\* PendingUpdateFlag, starts exactly one mount, keeps Selection and posts
\* nothing.
C6_EditMountsOnce ==
    [][\A b \in listeners, data \in Messages :
          (/\ data.type = "fixtureEdit"
           /\ selected # NoSelection
           /\ onMessage(b, data))
          => /\ hasFixtureUpdate' = TRUE
             /\ mountCount' = mountCount + 1
             /\ selected' = selected
             /\ posted' = << >>]_vars

\* C7 (as claimed): a connectLoader call made while a binding is active
\* starts exactly one mount when a Selection exists and PendingUpdateFlag is
\* false, and none otherwise.
C7_RebindRemounts ==
    [][\A r \in RegistryIds :
          (BindingActive /\ connectLoader(r))
          => mountCount' = mountCount +
                (IF selected # NoSelection /\ ~hasFixtureUpdate THEN 1 ELSE 0)]_vars

\* C8: a fixtureSelect of a pair the registry does not define changes neither
\* Selection nor PendingUpdateFlag, starts no mount and posts nothing.
C8_MissingSelectNoOp ==
    [][\A b \in listeners, data \in Messages :
          (/\ data.type = "fixtureSelect"
           /\ ~InRegistry(b, data.component, data.fixture)
           /\ onMessage(b, data))
          => /\ UNCHANGED <<selected, hasFixtureUpdate, mountCount, pending>>
             /\ posted' = << >>]_vars

\* C8 witness: a missing fixtureSelect was handled while a fixture was
\* selected and the flag was set, and both are still there.
C8_Witness ==
    /\ last = Op("onMessage", "missing", 0)
    /\ selected # NoSelection
    /\ hasFixtureUpdate

\* C9: a fixtureEdit handled while Selection is none keeps Selection none and
\* PendingUpdateFlag as it was, starts no mount and posts nothing.
C9_EditWithoutSelectionIgnored ==
    [][\A b \in listeners, data \in Messages :
          (/\ data.type = "fixtureEdit"
           /\ selected = NoSelection
           /\ onMessage(b, data))
          => /\ selected' = NoSelection
             /\ UNCHANGED <<hasFixtureUpdate, mountCount, pending>>
             /\ posted' = << >>]_vars

\* C9 witness: a fixtureEdit was handled with no Selection.
C9_Witness ==
    /\ last = Op("onMessage", "noSelection", 0)
    /\ lastMessage.type = "fixtureEdit"
    /\ selected = NoSelection
    /\ mountCount = 0

\* C10 (as claimed): the destroy closure of a binding that a destroy call has
\* already torn down changes nothing.
C10_DestroyOfDestroyedNoOp ==
    [][\A b \in destroys :
          (b = lastDestroyed /\ destroy(b))
          => /\ UNCHANGED <<listeners, selected, hasFixtureUpdate>>
             /\ posted' = << >>]_vars

\* C10 (amended): a destroy call made while no binding is active changes
\* neither the listeners, Selection, PendingUpdateFlag nor the mounts, and
\* posts nothing; so the second of two destroy calls in a row changes nothing.
C10_DestroyIdempotent ==
    [][/\ \A b \in destroys :
            (~BindingActive /\ destroy(b))
            => /\ UNCHANGED <<listeners, unbindPrev, selected, hasFixtureUpdate,
                              pending, mountCount>>
               /\ posted' = << >>
       /\ (last.op = "destroy" /\ last'.op = "destroy")
            => UNCHANGED <<listeners, unbindPrev, selected, hasFixtureUpdate,
                           pending, mountCount>>]_vars

\* C10 witness: a destroy call found no active binding and left a set
\* PendingUpdateFlag alone.
C10_Witness ==
    /\ last = Op("destroy", "inactive", 0)
    /\ lastDestroyed # 0
    /\ hasFixtureUpdate

\* C11 (as claimed): in every reachable state in which no binding is active,
\* Selection is none and PendingUpdateFlag is false.
C11_NoBindingNoState ==
    ~BindingActive => (selected = NoSelection /\ ~hasFixtureUpdate)

\* C12: an onUpdate callback sets PendingUpdateFlag, posts exactly one
\* fixtureUpdate carrying the serializable part of the reported fixture part,
\* keeps Selection and the listeners, and starts no mount.
C12_UpdateBubbling ==
    [][\A part \in UpdateParts :
          onContextUpdate(part)
          => /\ hasFixtureUpdate' = TRUE
             /\ posted' = <<[type |-> "fixtureUpdate",
                             fixtureBody |->
                                 splitUnserializableParts(part).serializable]>>
             /\ UNCHANGED <<selected, listeners, unbindPrev, mountCount, pending>>]_vars

\* C12 witness: an update callback ran with a Selection and a pending mount,
\* and posted the reported part without its function-valued key.
C12_Witness ==
    /\ last.op = "onContextUpdate"
    /\ hasFixtureUpdate
    /\ selected # NoSelection
    /\ pending # {}
    /\ posted = <<[type |-> "fixtureUpdate", fixtureBody |-> [state |-> "1"]]>>

\* The keys of an object whose values are not serializable.
UnserializableKeys(obj) == {k \in DOMAIN obj : obj[k] \in UnserializableValues}

\* C13 (as claimed): applyFixturePart(fixture, part) keeps the fixture's value
\* of every unserializable key, has part's value for every key of part, and
\* keeps the fixture's value of every serializable key that part lacks.
C13_MergeLaw ==
    applied.done =>
        LET fx == applied.fixture
            part == applied.part
            res == applied.result
        IN  /\ \A k \in UnserializableKeys(fx) : res[k] = fx[k]
            /\ \A k \in DOMAIN part : res[k] = part[k]
            /\ \A k \in (DOMAIN fx \ UnserializableKeys(fx)) \ DOMAIN part :
                  res[k] = fx[k]

\* C13 (amended): the result has the keys of the fixture and of part; every
\* key of part has part's value, also a key whose value in the fixture is
\* unserializable; every other key keeps the fixture's value.
C13_MergeLawPartWins ==
    applied.done =>
        LET fx == applied.fixture
            part == applied.part
            res == applied.result
        IN  /\ DOMAIN res = DOMAIN fx \cup DOMAIN part
            /\ \A k \in DOMAIN part : res[k] = part[k]
            /\ \A k \in DOMAIN fx \ DOMAIN part : res[k] = fx[k]

\* C13 witness: fixture {a: 1, b: 2, fn: F} and part {b: 9} gave
\* {a: 1, b: 9, fn: F}.
C13_Witness ==
    /\ applied.done
    /\ applied.fixture = [a |-> "1", b |-> "2", fn |-> "F"]
    /\ applied.part = [b |-> "9"]
    /\ applied.result = [a |-> "1", b |-> "9", fn |-> "F"]

\* C14: a rebind that re-syncs (Selection present, PendingUpdateFlag false,
\* selected component in the new registry) posts fixtureListUpdate and starts
\* the remount of the new registry's definition; the completion of that
\* remount, a later step, posts exactly one fixtureLoad with the serializable
\* part of the remounted fixture.
C14_RebindRemountNotifies ==
    [][/\ \A r \in RegistryIds :
            (/\ BindingActive
             /\ selected # NoSelection
             /\ ~hasFixtureUpdate
             /\ selected.component \in DOMAIN Registries[r]
             /\ connectLoader(r))
            => /\ Len(posted') = 1
               /\ posted'[1].type = "fixtureListUpdate"
               /\ \E t \in pending' :
                     /\ t \notin pending
                     /\ pending' = pending \cup {t}
                     /\ t.kind = "connectLoader"
                     /\ t.fixture = Registries[r][selected.component][selected.fixture]
       /\ \A t \in pending :
            (t.kind = "connectLoader" /\ MountDone(t))
            => posted' = <<[type |-> "fixtureLoad",
                            fixtureBody |->
                                splitUnserializableParts(t.fixture).serializable]>>]_vars

\* C14 witness: the remount of a rebind to the reloaded registry completed
\* and posted the fixtureLoad of the reloaded A/f1.
C14_Witness ==
    /\ last.op = "mountDone"
    /\ last.arg = "connectLoader"
    /\ posted = <<[type |-> "fixtureLoad", fixtureBody |-> [a |-> "1", b |-> "4"]]>>

\* C15: a destroy call made while a binding is active unregisters the
\* listener at once and leaves the pending mounts pending; when a
\* select-driven mount completes with no binding active, its fixtureLoad is
\* still posted, and Selection (none), PendingUpdateFlag and the listeners
\* stay as they are.
C15_DestroyDoesNotCancel ==
    [][/\ \A b \in destroys :
            (BindingActive /\ destroy(b))
            => /\ listeners' = {}
               /\ pending' = pending
               /\ posted' = << >>
       /\ \A t \in pending :
            (t.kind = "fixtureSelect" /\ ~BindingActive /\ MountDone(t))
            => /\ posted' = <<[type |-> "fixtureLoad",
                               fixtureBody |->
                                   splitUnserializableParts(t.fixture).serializable]>>
               /\ selected' = NoSelection
               /\ UNCHANGED <<selected, hasFixtureUpdate, listeners>>]_vars

\* C15 witness: a select-driven mount completed after the destroy and posted
\* its fixtureLoad; Selection is none and the flag false.
C15_Witness ==
    /\ last.op = "mountDone"
    /\ last.arg = "fixtureSelect"
    /\ ~BindingActive
    /\ lastDestroyed # 0
    /\ Len(posted) = 1
    /\ posted[1].type = "fixtureLoad"
    /\ selected = NoSelection
    /\ ~hasFixtureUpdate

\* C16 (as claimed): the mounts of fixtureSelect messages for different
\* fixtures complete, and post their fixtureLoad, in the order in which the
\* messages arrived: the one that completes is the oldest one pending.
C16_LoadsInArrivalOrder ==
    [][\A t \in pending :
          (t.kind = "fixtureSelect" /\ MountDone(t))
          => \A u \in pending :
                (u.kind = "fixtureSelect" /\ u.fixture # t.fixture) => t.id <= u.id]_vars

\* C17: the fixture a fixtureEdit mounts is made of the registry's definition
\* of the selected pair and the body of that edit alone: each key of the body
\* has the body's value, each other key the registry's value, and there are
\* no other keys, whatever earlier edits carried.
C17_EditsDoNotAccumulate ==
    [][\A b \in listeners, data \in Messages :
          (/\ data.type = "fixtureEdit"
           /\ selected # NoSelection
           /\ InRegistry(b, selected.component, selected.fixture)
           /\ onMessage(b, data))
          => \E t \in pending' :
                /\ t \notin pending
                /\ pending' = pending \cup {t}
                /\ LET reg == fixtures(b)[selected.component][selected.fixture]
                       body == data.fixtureBody
                   IN  /\ t.fixture = applyFixturePart(reg, body)
                       /\ DOMAIN t.fixture = DOMAIN reg \cup DOMAIN body
                       /\ \A k \in DOMAIN body : t.fixture[k] = body[k]
                       /\ \A k \in DOMAIN reg \ DOMAIN body :
                             t.fixture[k] = reg[k]]_vars

\* C17 witness: after an edit {b: 9} of A/f1, the edit {a: 7, fn: 8} was
\* mounted with the registry's b.
C17_Witness ==
    /\ last.op = "onMessage"
    /\ last.arg = "fixtureEdit"
    /\ \E t \in pending, u \in pending :
          /\ t.kind = "fixtureEdit"
          /\ u.kind = "fixtureEdit"
          /\ t.id < u.id
          /\ u.id = last.task
          /\ t.fixture = [a |-> "1", b |-> "9", fn |-> "F"]
          /\ u.fixture = [a |-> "7", b |-> "2", fn |-> "8"]

\* C18 (as claimed): whenever a binding is active and Selection is not none,
\* Selection names a pair the registry of the active binding defines.
C18_SelectionInRegistry ==
    (BindingActive /\ selected # NoSelection)
    => \A b \in listeners : InRegistry(b, selected.component, selected.fixture)

\* C19: any destroy closure, also the one an earlier connectLoader call
\* returned, tears down the binding that is active when it is called: the
\* listener is unregistered, Selection is none and PendingUpdateFlag false.
C19_DestroyActsOnCurrentBinding ==
    [][\A b \in destroys :
          (BindingActive /\ destroy(b))
          => /\ listeners' = {}
             /\ unbindPrev' = 0
             /\ selected' = NoSelection
             /\ hasFixtureUpdate' = FALSE]_vars

\* C19 witness: the destroy closure of an earlier call has torn down the
\* binding of a later call.
C19_Witness ==
    /\ last = Op("destroy", "other", 0)
    /\ calls >= 2
    /\ lastDestroyed = calls
    /\ listeners = {}
    /\ selected = NoSelection

\* C20: a connectLoader call made while a binding is active leaves Selection
\* and PendingUpdateFlag as they are; Selection becomes none by destroy only,
\* and PendingUpdateFlag returns to false by destroy or a fixtureSelect only.
C20_RebindKeepsState ==
    [][/\ \A r \in RegistryIds :
            (BindingActive /\ connectLoader(r))
            => UNCHANGED <<selected, hasFixtureUpdate>>
       /\ (selected # NoSelection /\ selected' = NoSelection)
            => last'.op = "destroy"
       /\ (hasFixtureUpdate /\ ~hasFixtureUpdate')
            => \/ last'.op = "destroy"
               \/ last'.op = "onMessage" /\ last'.arg = "fixtureSelect"]_vars

\* C20 witness: a rebind found a Selection and a set flag and kept both.
C20_Witness ==
    /\ last = Op("connectLoader", "rebind", 0)
    /\ lastDestroyed = 0
    /\ selected # NoSelection
    /\ hasFixtureUpdate

====
